---- MODULE Spec2Model ----
(***************************************************************************)
(* Dependency-graph visualiser (task.py): the CargoRepository dependency   *)
(* source with its two caches, and the DependencyGraph builder with its    *)
(* traversal, reverse closure, DOT export and image rendering.             *)
(*                                                                         *)
(* Text is modelled character by character: a Python str is a sequence of  *)
(* one-character strings, so that strip(), split(), `in` and the f-string  *)
(* formatting are computed as the code computes them.                      *)
(***************************************************************************)
EXTENDS Integers, Sequences, FiniteSets, TLC

(***************************************************************************)
(* Python str primitives                                                   *)
(***************************************************************************)
Whitespace == {" ", "\t", "\n"}

RECURSIVE LStrip(_)
LStrip(s) ==
    IF s # <<>> /\ Head(s) \in Whitespace THEN LStrip(Tail(s)) ELSE s

RECURSIVE RStrip(_)
RStrip(s) ==
    IF s # <<>> /\ s[Len(s)] \in Whitespace
    THEN RStrip(SubSeq(s, 1, Len(s) - 1))
    ELSE s

\* str.strip()
Strip(s) == RStrip(LStrip(s))

\* `sub in s` for two str values
Contains(sub, s) ==
    \E i \in 1..(Len(s) - Len(sub) + 1) : SubSeq(s, i, i + Len(sub) - 1) = sub

\* s.find(sep, i - 1) + 1, or 0 when sep does not occur from position i on
RECURSIVE FindFrom(_, _, _)
FindFrom(s, sep, i) ==
    IF i + Len(sep) - 1 > Len(s) THEN 0
    ELSE IF SubSeq(s, i, i + Len(sep) - 1) = sep THEN i
    ELSE FindFrom(s, sep, i + 1)

Find(s, sep) == FindFrom(s, sep, 1)

\* s.split(sep) for a non-empty separator
RECURSIVE Split(_, _)
Split(s, sep) ==
    LET i == Find(s, sep) IN
    IF i = 0
    THEN <<s>>
    ELSE <<SubSeq(s, 1, i - 1)>> \o Split(SubSeq(s, i + Len(sep), Len(s)), sep)

\* `x in lst` and lst.index(x) + 1 for a list
InList(x, lst) == \E i \in 1..Len(lst) : lst[i] = x

Index(lst, x) ==
    CHOOSE i \in 1..Len(lst) : lst[i] = x /\ \A j \in 1..(i - 1) : lst[j] # x

\* "sep".join(parts)
RECURSIVE Join(_, _)
Join(parts, sep) ==
    IF parts = <<>> THEN <<>>
    ELSE IF Len(parts) = 1 THEN parts[1]
    ELSE parts[1] \o sep \o Join(Tail(parts), sep)

ARROW == <<"-", ">">>
AT    == <<"@">>
COMMA == <<",">>

(***************************************************************************)
(* CargoRepository: parsing of the backing text file                       *)
(***************************************************************************)
\* [d.split('@')[0] for d in [p.strip() for p in rhs.split(',')] if d.strip()]
RECURSIVE CleanList(_)
CleanList(deps) ==
    IF deps = <<>> THEN <<>>
    ELSE (IF Strip(Head(deps)) # <<>> THEN <<Split(Head(deps), AT)[1]>> ELSE <<>>)
         \o CleanList(Tail(deps))

RECURSIVE StripAll(_)
StripAll(ps) ==
    IF ps = <<>> THEN <<>> ELSE <<Strip(Head(ps))>> \o StripAll(Tail(ps))

CleanDeps(rhs) == CleanList(StripAll(Split(rhs, COMMA)))

\* `if line and '->' in line` on the stripped line
IsRecordLine(line) == line # <<>> /\ Contains(ARROW, line)

\* parts[0].strip() of a record line
PkgInfo(line) == Strip(Split(line, ARROW)[1])

\* parts[1] of a record line
DepsPart(line) == Split(line, ARROW)[2]

\* `a, b = pkg_info.split('@')` raises ValueError unless there are exactly two parts
UnpackRaises(pkg_info) ==
    Contains(AT, pkg_info) /\ Len(Split(pkg_info, AT)) # 2

PkgName(pkg_info) ==
    IF Contains(AT, pkg_info) THEN Split(pkg_info, AT)[1] ELSE pkg_info

PkgVer(pkg_info) ==
    IF Contains(AT, pkg_info) THEN Split(pkg_info, AT)[2] ELSE <<>>

\* the match test of _parse_test_file
RecordMatches(pkg_name, pkg_ver, package, version) ==
    pkg_name = package /\ (version = <<>> \/ pkg_ver = version)

\* _parse_test_file from line i on: the first matching record's dependency
\* names; an exception raised inside the loop leaves the loop and the
\* function returns [].
RECURSIVE ParseFrom(_, _, _, _)
ParseFrom(lines, i, package, version) ==
    IF i > Len(lines) THEN <<>>
    ELSE LET line == Strip(lines[i]) IN
         IF ~IsRecordLine(line) THEN ParseFrom(lines, i + 1, package, version)
         ELSE IF UnpackRaises(PkgInfo(line)) THEN <<>>
         ELSE IF RecordMatches(PkgName(PkgInfo(line)), PkgVer(PkgInfo(line)),
                               package, version)
              THEN CleanDeps(DepsPart(line))
              ELSE ParseFrom(lines, i + 1, package, version)

_parse_test_file(lines, package, version) == ParseFrom(lines, 1, package, version)

\* defaultdict(list): d[k].append(v)
AppendTo(d, k, v) ==
    IF k \in DOMAIN d THEN [d EXCEPT ![k] = Append(@, v)] ELSE d @@ (k :> <<v>>)

\* for dep in deps: rcache[dep].append(pkg)
RECURSIVE AppendAll(_, _, _)
AppendAll(rcache, deps, pkg) ==
    IF deps = <<>> THEN rcache
    ELSE AppendAll(AppendTo(rcache, Head(deps), pkg), Tail(deps), pkg)

\* _build_reverse_cache_from_file from line i on; an exception raised inside
\* the loop ends the scan and keeps what was indexed so far.
RECURSIVE BuildReverseFrom(_, _, _)
BuildReverseFrom(lines, i, rcache) ==
    IF i > Len(lines) THEN rcache
    ELSE LET line == Strip(lines[i]) IN
         IF ~IsRecordLine(line) THEN BuildReverseFrom(lines, i + 1, rcache)
         ELSE IF UnpackRaises(PkgInfo(line)) THEN rcache
         ELSE BuildReverseFrom(lines, i + 1,
                AppendAll(rcache, CleanDeps(DepsPart(line)), PkgName(PkgInfo(line))))

_build_reverse_cache_from_file(lines, rcache) == BuildReverseFrom(lines, 1, rcache)

(***************************************************************************)
(* CargoRepository: the built-in demo table                                *)
(***************************************************************************)
serde == <<"s", "e", "r", "d", "e">>
serde_derive == <<"s", "e", "r", "d", "e", "_", "d", "e", "r", "i", "v", "e">>
serde_json == <<"s", "e", "r", "d", "e", "_", "j", "s", "o", "n">>
proc_macro2 == <<"p", "r", "o", "c", "-", "m", "a", "c", "r", "o", "2">>
syn == <<"s", "y", "n">>
quote == <<"q", "u", "o", "t", "e">>
itoa == <<"i", "t", "o", "a">>
ryu == <<"r", "y", "u">>
unicode_xid == <<"u", "n", "i", "c", "o", "d", "e", "-", "x", "i", "d">>
tokio == <<"t", "o", "k", "i", "o">>
futures == <<"f", "u", "t", "u", "r", "e", "s">>
mio == <<"m", "i", "o">>
num_cpus == <<"n", "u", "m", "_", "c", "p", "u", "s">>
reqwest == <<"r", "e", "q", "w", "e", "s", "t">>
http == <<"h", "t", "t", "p">>
url == <<"u", "r", "l">>

demo_dependencies ==
    (serde :> <<serde_derive, serde_json>>) @@
    (serde_derive :> <<proc_macro2, quote, syn>>) @@
    (serde_json :> <<itoa, ryu, serde>>) @@
    (proc_macro2 :> <<unicode_xid>>) @@
    (syn :> <<proc_macro2, quote, unicode_xid>>) @@
    (quote :> <<proc_macro2>>) @@
    (itoa :> <<>>) @@
    (ryu :> <<>>) @@
    (unicode_xid :> <<>>) @@
    (tokio :> <<futures, mio, num_cpus>>) @@
    (futures :> <<>>) @@
    (mio :> <<>>) @@
    (num_cpus :> <<>>) @@
    (reqwest :> <<futures, http, url, serde>>) @@
    (http :> <<>>) @@
    (url :> <<>>)

\* demo_dependencies.get(package, [])
_parse_cargo_dependencies(package, version) ==
    IF package \in DOMAIN demo_dependencies THEN demo_dependencies[package] ELSE <<>>

\* demo_packages of run_stage5
demo_packages == {serde, tokio, reqwest}

(***************************************************************************)
(* Inputs: backing files and call parameters                               *)
(***************************************************************************)
A  == <<"A">>
B  == <<"B">>
C  == <<"C">>
D  == <<"D">>
AB == <<"A", "B">>
V1 == <<"1">>
V2 == <<"2">>

\* one record line, NAME[@VERSION] -> DEP1, DEP2, ...
Rec(name, ver, deps) ==
    name \o (IF ver # <<>> THEN AT \o ver ELSE <<>>)
         \o <<" ">> \o ARROW \o <<" ">> \o Join(deps, <<",", " ">>)

Chain4File    == << Rec(A, <<>>, <<B>>), Rec(B, <<>>, <<C>>), Rec(C, <<>>, <<D>>) >>
Chain3File    == << Rec(A, <<>>, <<B>>), Rec(B, <<>>, <<C>>) >>
Cycle2File    == << Rec(A, <<>>, <<B>>), Rec(B, <<>>, <<A>>) >>
Cycle3File    == << Rec(A, <<>>, <<B>>), Rec(B, <<>>, <<C>>), Rec(C, <<>>, <<A>>) >>
SelfLoopFile  == << Rec(A, <<>>, <<A, B>>) >>
DiamondFile   == << Rec(A, <<>>, <<B, C>>), Rec(B, <<>>, <<D>>), Rec(C, <<>>, <<D>>) >>
DupFile       == << Rec(A, <<>>, <<B, B>>), Rec(B, <<>>, <<A>>) >>
SharedFile    == << Rec(A, <<>>, <<B>>), Rec(B, <<>>, <<C>>), Rec(C, <<>>, <<A, B>>) >>
LateCycleFile == << Rec(A, <<>>, <<B, C>>), Rec(B, <<>>, <<C>>), Rec(C, <<>>, <<B>>) >>
VersionedFile == << Rec(A, V2, <<C>>), Rec(A, V1, <<B \o AT \o V1, C \o AT \o V2>>),
                    Rec(B, <<>>, <<C>>) >>
VersionedCycleFile == << Rec(A, V1, <<B>>), Rec(B, <<>>, <<A \o AT \o V2>>) >>
SubstringFile == << Rec(A, <<>>, <<AB, C>>), Rec(AB, <<>>, <<C>>), Rec(C, <<>>, <<D>>) >>
MalformedFile == << Rec(B, <<>>, <<C>>), A \o AT \o V1 \o AT \o V2 \o <<" ">> \o ARROW \o <<" ">> \o B,
                    Rec(C, <<>>, <<D>>) >>
MalformedFirstFile ==
    << A \o AT \o V1 \o AT \o V2 \o ARROW \o B, Rec(C, <<>>, <<A>>) >>
OddLinesFile  == << <<"#", " ", "A">>, <<>>, <<" ", " ">> \o Rec(A, <<>>, <<B>>) \o <<" ">> \o ARROW \o C,
                    Rec(B, <<>>, <<>>), B \o ARROW \o <<",", " ">> \o C \o <<" ", ",">> >>
NoRecordsFile == << <<"#", " ", "A">>, <<>>, A \o <<" ">> \o B >>
EmptyFile     == << >>

Files ==
    { Chain4File, Chain3File, Cycle2File, Cycle3File, SelfLoopFile, DiamondFile,
      DupFile, SharedFile, LateCycleFile, VersionedFile, SubstringFile,
      MalformedFile, MalformedFirstFile, OddLinesFile, NoRecordsFile, EmptyFile,
      VersionedCycleFile }

Packages == {A, B, C}
Versions == {<<>>, V1}
Excludes == {<<>>, B}

\* float('inf'), the default of max_depth
Inf == -1
MaxDepth == 2
Depths == (0..MaxDepth) \cup {Inf}

\* temporary files left on disk are counted up to this many
MaxTemp == 1

\* how many full scans of the backing file for the reverse index are followed
MaxScans == 2

(***************************************************************************)
(* State                                                                   *)
(***************************************************************************)
VARIABLES
    file_backed,                \* repo_url.startswith('file://')
    file,                       \* the lines of the backing file
    package, version,           \* the configured root package and its version
    max_depth, exclude_substring,
    dependency_cache,           \* CargoRepository.dependency_cache
    reverse_dependency_cache,   \* CargoRepository.reverse_dependency_cache
    graph, visited, cycles, load_order,     \* DependencyGraph fields
    pc,                         \* "idle", "build" (in build_graph_bfs_recursive), "rev"
    stack,                      \* active build_graph_bfs_recursive calls inside their loop
    queue, rvisited, reverse_deps, rev_depth, \* locals of get_reverse_dependencies
    op,                         \* the operation that ran last
    ret,                        \* the list a CargoRepository call returned
    closure,                    \* the names get_reverse_dependencies returned
    dot_content,                \* the text display_graph returned
    saved,                      \* the value save_graph_image returned
    opens,                      \* how many times the last step opened the backing file
    temp_files,                 \* temporary .dot files on disk
    scans                       \* full scans of the backing file for the reverse index

config == <<file_backed, file, package, version, max_depth, exclude_substring>>
repo   == <<dependency_cache, reverse_dependency_cache>>
builder == <<graph, visited, cycles, load_order>>
bfs    == <<queue, rvisited, reverse_deps, rev_depth>>
results == <<ret, closure, dot_content, saved>>
vars   == <<config, repo, builder, pc, stack, bfs, op, results, opens, temp_files,
           scans>>

\* the results of the calls that did not run last
NoResults ==
    /\ ret' = <<>>
    /\ closure' = {}
    /\ dot_content' = <<>>
    /\ saved' = FALSE

Init ==
    /\ \/ /\ file_backed = TRUE
          /\ file \in Files
          /\ package \in Packages
          /\ exclude_substring \in Excludes
       \/ /\ file_backed = FALSE
          /\ file = <<>>
          /\ package \in demo_packages
          /\ exclude_substring = <<>>
    /\ version \in Versions
    /\ max_depth \in Depths
    /\ dependency_cache = <<>>
    /\ reverse_dependency_cache = <<>>
    /\ graph = <<>>
    /\ visited = {}
    /\ cycles = <<>>
    /\ load_order = <<>>
    /\ pc = "idle"
    /\ stack = <<>>
    /\ queue = <<>>
    /\ rvisited = {}
    /\ reverse_deps = {}
    /\ rev_depth = Inf
    /\ op = "init"
    /\ ret = <<>>
    /\ closure = {}
    /\ dot_content = <<>>
    /\ saved = FALSE
    /\ opens = 0
    /\ temp_files = 0
    /\ scans = 0

(***************************************************************************)
(* CargoRepository operations                                              *)
(***************************************************************************)
\* d[k] = v
Put(d, k, v) ==
    IF k \in DOMAIN d THEN [d EXCEPT ![k] = v] ELSE d @@ (k :> v)

\* cache_key = f"{package}@{version}" if version else package
CacheKey(pkg, ver) == IF ver # <<>> THEN pkg \o AT \o ver ELSE pkg

\* the cache test left out: every call parses again
CacheHitNever(key) == FALSE

\* `if cache_key in self.dependency_cache`
CacheHit(key) == key \in DOMAIN dependency_cache

\* the branch on repo_url of get_package_dependencies
Fetch(pkg, ver) ==
    IF file_backed
    THEN _parse_test_file(file, pkg, ver)
    ELSE _parse_cargo_dependencies(pkg, ver)

\* get_package_dependencies: the value returned, the two caches after the
\* call, and the number of times the backing file was opened
get_package_dependencies(pkg, ver) ==
    LET key == CacheKey(pkg, ver) IN
    IF CacheHit(key)
    THEN [deps   |-> dependency_cache[key],
          cache  |-> dependency_cache,
          rcache |-> reverse_dependency_cache,
          opens  |-> 0]
    ELSE LET deps == Fetch(pkg, ver) IN
         [deps   |-> deps,
          cache  |-> Put(dependency_cache, key, deps),
          rcache |-> AppendAll(reverse_dependency_cache, deps, pkg),
          opens  |-> IF file_backed THEN 1 ELSE 0]

\* the emptiness test left out: every miss scans
NeedsBuildAlways(rcache) == TRUE

\* `if not self.reverse_dependency_cache`
NeedsBuild(rcache) == DOMAIN rcache = {}

\* _build_reverse_dependency_cache
_build_reverse_dependency_cache(rcache) ==
    IF file_backed THEN _build_reverse_cache_from_file(file, rcache) ELSE rcache

\* CargoRepository.get_reverse_dependencies: the value returned, the reverse
\* index after the call, and the number of times the backing file was opened
repo_get_reverse_dependencies(rcache, pkg) ==
    IF pkg \in DOMAIN rcache
    THEN [result |-> rcache[pkg], rcache |-> rcache, opens |-> 0]
    ELSE LET built == IF NeedsBuild(rcache)
                      THEN _build_reverse_dependency_cache(rcache)
                      ELSE rcache
         IN [result |-> IF pkg \in DOMAIN built THEN built[pkg] ELSE <<>>,
             rcache |-> built,
             opens  |-> IF NeedsBuild(rcache) /\ file_backed THEN 1 ELSE 0]

\* run_stage2: repo.get_package_dependencies(package, version)
GetPackageDependencies ==
    /\ pc = "idle"
    /\ LET r == get_package_dependencies(package, version) IN
        /\ dependency_cache' = r.cache
        /\ reverse_dependency_cache' = r.rcache
        /\ ret' = r.deps
        /\ closure' = {} /\ dot_content' = <<>> /\ saved' = FALSE
        /\ opens' = r.opens
    /\ op' = "get_package_dependencies"
    /\ UNCHANGED <<config, builder, pc, stack, bfs, temp_files, scans>>

\* repository.get_reverse_dependencies(package)
RepoGetReverseDependencies ==
    /\ pc = "idle"
    /\ LET r == repo_get_reverse_dependencies(reverse_dependency_cache, package) IN
        /\ reverse_dependency_cache' = r.rcache
        /\ ret' = r.result
        /\ closure' = {} /\ dot_content' = <<>> /\ saved' = FALSE
        /\ opens' = r.opens
        /\ scans + r.opens <= MaxScans
        /\ scans' = scans + r.opens
    /\ op' = "repo_get_reverse_dependencies"
    /\ UNCHANGED <<config, dependency_cache, builder, pc, stack, bfs, temp_files>>

(***************************************************************************)
(* DependencyGraph.build_graph_bfs_recursive                               *)
(***************************************************************************)
\* self.graph is a dict in insertion order: a sequence of (source, targets)
GraphKeys(g) == {g[i].source : i \in 1..Len(g)}

GraphGet(g, src) ==
    LET i == CHOOSE j \in 1..Len(g) : g[j].source = src IN g[i].targets

\* the edge appended only if the source does not list the target yet
AppendEdgeOnce(g, src, dep) ==
    IF src \in GraphKeys(g)
    THEN [i \in 1..Len(g) |->
            IF g[i].source = src /\ ~InList(dep, g[i].targets)
            THEN [g[i] EXCEPT !.targets = Append(@, dep)]
            ELSE g[i]]
    ELSE Append(g, [source |-> src, targets |-> <<dep>>])

\* self.graph[start_package].append(dep)
AppendEdge(g, src, dep) ==
    IF src \in GraphKeys(g)
    THEN [i \in 1..Len(g) |->
            IF g[i].source = src
            THEN [g[i] EXCEPT !.targets = Append(@, dep)]
            ELSE g[i]]
    ELSE Append(g, [source |-> src, targets |-> <<dep>>])

\* the depth test with > in place of >=
DepthReachedStrict(current_depth, md) == md # Inf /\ current_depth > md

\* `if current_depth >= max_depth`
DepthReached(current_depth, md) == md # Inf /\ current_depth >= md

\* the path test left out
OnPathNever(pkg, path) == FALSE

\* the path test narrowed to the calling package
OnPathParentOnly(pkg, path) == path # <<>> /\ pkg = path[Len(path)]

\* `if start_package in path`
OnPath(pkg, path) == InList(pkg, path)

\* the whole path taken in place of its part from start_package on
CycleOfWholePath(pkg, path) == path \o <<pkg>>

\* path[path.index(start_package):] + [start_package]
CycleOf(pkg, path) == SubSeq(path, Index(path, pkg), Len(path)) \o <<pkg>>

\* the exclusion test with == in place of `in`
ExcludedExact(excl, pkg) == excl # <<>> /\ excl = pkg

\* `if exclude_substring and exclude_substring in start_package`
Excluded(excl, pkg) == excl # <<>> /\ Contains(excl, pkg)

\* the visited test left out
AlreadyVisitedNever(pkg) == FALSE

\* `if start_package in self.visited`
AlreadyVisited(pkg) == pkg \in visited

\* a call whose loop is over returns to its caller
RECURSIVE Unwind(_)
Unwind(stk) ==
    IF stk # <<>> /\ stk[Len(stk)].i > Len(stk[Len(stk)].deps)
    THEN Unwind(SubSeq(stk, 1, Len(stk) - 1))
    ELSE stk

\* the call with its visited test moved before its path test
EnterVisitedFirst(pkg, ver, current_depth, path, stk) ==
    LET returned == [visited    |-> visited,
                     load_order |-> load_order,
                     cycles     |-> cycles,
                     cache      |-> dependency_cache,
                     rcache     |-> reverse_dependency_cache,
                     opens      |-> 0,
                     stack      |-> Unwind(stk)]
    IN
    IF DepthReached(current_depth, max_depth) THEN returned
    ELSE IF AlreadyVisited(pkg) THEN returned
    ELSE IF OnPath(pkg, path)
    THEN [returned EXCEPT !.cycles = Append(cycles, CycleOf(pkg, path))]
    ELSE IF Excluded(exclude_substring, pkg) THEN returned
    ELSE LET r == get_package_dependencies(pkg, ver) IN
         [visited    |-> visited \cup {pkg},
          load_order |-> Append(load_order, pkg),
          cycles     |-> cycles,
          cache      |-> r.cache,
          rcache     |-> r.rcache,
          opens      |-> r.opens,
          stack      |-> Unwind(Append(stk, [pkg |-> pkg, deps |-> r.deps, i |-> 1,
                                             depth |-> current_depth,
                                             path |-> Append(path, pkg)]))]

\* One call of build_graph_bfs_recursive from its entry up to its loop, on
\* top of the calls in stk: the fields and caches it leaves, the active calls,
\* and the number of times the backing file was opened.
Enter(pkg, ver, current_depth, path, stk) ==
    LET returned == [visited    |-> visited,
                     load_order |-> load_order,
                     cycles     |-> cycles,
                     cache      |-> dependency_cache,
                     rcache     |-> reverse_dependency_cache,
                     opens      |-> 0,
                     stack      |-> Unwind(stk)]
    IN
    IF DepthReached(current_depth, max_depth) THEN returned
    ELSE IF OnPath(pkg, path)
    THEN [returned EXCEPT !.cycles = Append(cycles, CycleOf(pkg, path))]
    ELSE IF Excluded(exclude_substring, pkg) THEN returned
    ELSE IF AlreadyVisited(pkg) THEN returned
    ELSE LET r == get_package_dependencies(pkg, ver) IN
         [visited    |-> visited \cup {pkg},
          load_order |-> Append(load_order, pkg),
          cycles     |-> cycles,
          cache      |-> r.cache,
          rcache     |-> r.rcache,
          opens      |-> r.opens,
          stack      |-> Unwind(Append(stk, [pkg |-> pkg, deps |-> r.deps, i |-> 1,
                                             depth |-> current_depth,
                                             path |-> Append(path, pkg)]))]

\* the state a call leaves
Entered(e) ==
    /\ visited' = e.visited
    /\ load_order' = e.load_order
    /\ cycles' = e.cycles
    /\ dependency_cache' = e.cache
    /\ reverse_dependency_cache' = e.rcache
    /\ opens' = e.opens
    /\ stack' = e.stack
    /\ pc' = IF e.stack = <<>> THEN "idle" ELSE "build"

\* graph_builder.build_graph_bfs_recursive(package, version, max_depth, exclude_substring)
BuildStart ==
    /\ pc = "idle"
    /\ Entered(Enter(package, version, 0, <<>>, <<>>))
    /\ op' = "build_graph_bfs_recursive"
    /\ NoResults
    /\ UNCHANGED <<config, graph, bfs, temp_files, scans>>

\* the call at the top of the stack and the dependency its loop is at
Top == stack[Len(stack)]

\* one iteration of `for dep in dependencies`: the edge, then the recursive call
BuildIter ==
    /\ pc = "build"
    /\ graph' = AppendEdge(graph, Top.pkg, Top.deps[Top.i])
    /\ Entered(Enter(Top.deps[Top.i], <<>>, Top.depth + 1, Top.path,
                     [stack EXCEPT ![Len(stack)].i = @ + 1]))
    /\ UNCHANGED <<config, bfs, op, results, temp_files, scans>>

\* reset() without its self.visited.clear()
ResetKeepingVisited ==
    /\ pc = "idle"
    /\ graph' = <<>>
    /\ cycles' = <<>>
    /\ load_order' = <<>>
    /\ op' = "reset"
    /\ NoResults
    /\ opens' = 0
    /\ UNCHANGED <<config, repo, visited, pc, stack, bfs, temp_files, scans>>

\* reset()
Reset ==
    /\ pc = "idle"
    /\ graph' = <<>>
    /\ visited' = {}
    /\ cycles' = <<>>
    /\ load_order' = <<>>
    /\ op' = "reset"
    /\ NoResults
    /\ opens' = 0
    /\ UNCHANGED <<config, repo, pc, stack, bfs, temp_files, scans>>

(***************************************************************************)
(* DependencyGraph.get_reverse_dependencies                                *)
(***************************************************************************)
\* the skip test without its depth part
SkipNodeNoDepth(depth, md, current_pkg, seen) == current_pkg \in seen

\* `if depth >= max_depth or current_pkg in visited`
SkipNode(depth, md, current_pkg, seen) ==
    (md # Inf /\ depth >= md) \/ current_pkg \in seen

\* the loop over the dependents without its `not in visited` test
RECURSIVE DiscoverAll(_, _, _, _, _)
DiscoverAll(dependents, seen, found, q, depth) ==
    IF dependents = <<>> THEN [found |-> found, q |-> q]
    ELSE DiscoverAll(Tail(dependents), seen, found \cup {Head(dependents)},
                     Append(q, [pkg |-> Head(dependents), depth |-> depth + 1]),
                     depth)

\* `if dependent not in visited`, for every dependent in order
RECURSIVE Discover(_, _, _, _, _)
Discover(dependents, seen, found, q, depth) ==
    IF dependents = <<>> THEN [found |-> found, q |-> q]
    ELSE IF Head(dependents) \notin seen
         THEN Discover(Tail(dependents), seen, found \cup {Head(dependents)},
                       Append(q, [pkg |-> Head(dependents), depth |-> depth + 1]),
                       depth)
         ELSE Discover(Tail(dependents), seen, found, q, depth)

\* graph_builder.get_reverse_dependencies(package, max_depth): the locals
ReverseStart ==
    /\ pc = "idle"
    /\ \E md \in {Inf, max_depth} : rev_depth' = md
    /\ reverse_deps' = {}
    /\ rvisited' = {}
    /\ queue' = << [pkg |-> package, depth |-> 0] >>
    /\ pc' = "rev"
    /\ op' = "get_reverse_dependencies"
    /\ NoResults
    /\ opens' = 0
    /\ UNCHANGED <<config, repo, builder, stack, temp_files, scans>>

\* one iteration of `while queue`: the locals and the reverse index it leaves
Iterate(cur, rest) ==
    IF SkipNode(cur.depth, rev_depth, cur.pkg, rvisited)
    THEN [seen |-> rvisited, found |-> reverse_deps, q |-> rest,
          rcache |-> reverse_dependency_cache, opens |-> 0]
    ELSE LET r == repo_get_reverse_dependencies(reverse_dependency_cache, cur.pkg)
             d == Discover(r.result, rvisited \cup {cur.pkg}, reverse_deps, rest,
                           cur.depth)
         IN [seen |-> rvisited \cup {cur.pkg}, found |-> d.found, q |-> d.q,
             rcache |-> r.rcache, opens |-> r.opens]

ReverseIter ==
    /\ pc = "rev"
    /\ queue # <<>>
    /\ scans + Iterate(Head(queue), Tail(queue)).opens <= MaxScans
    /\ scans' = scans + Iterate(Head(queue), Tail(queue)).opens
    /\ rvisited' = Iterate(Head(queue), Tail(queue)).seen
    /\ reverse_deps' = Iterate(Head(queue), Tail(queue)).found
    /\ queue' = Iterate(Head(queue), Tail(queue)).q
    /\ reverse_dependency_cache' = Iterate(Head(queue), Tail(queue)).rcache
    /\ opens' = Iterate(Head(queue), Tail(queue)).opens
    /\ UNCHANGED <<config, dependency_cache, builder, pc, stack, rev_depth, op,
                   results, temp_files>>

\* `return list(reverse_deps)` once the queue is empty
ReverseReturn ==
    /\ pc = "rev"
    /\ queue = <<>>
    /\ closure' = reverse_deps
    /\ UNCHANGED <<ret, dot_content, saved>>
    /\ pc' = "idle"
    /\ reverse_deps' = {}
    /\ rvisited' = {}
    /\ opens' = 0
    /\ UNCHANGED <<config, repo, builder, stack, queue, rev_depth, op, temp_files,
                   scans>>

(***************************************************************************)
(* DependencyGraph.generate_graphviz_dot                                   *)
(***************************************************************************)
DotHeader ==
    <<"d", "i", "g", "r", "a", "p", "h", " ", "D", "e", "p", "e", "n", "d",
    "e", "n", "c", "i", "e", "s", " ", "{">>

DotRankdir ==
    <<" ", " ", "r", "a", "n", "k", "d", "i", "r", "=", "T", "B", ";">>

DotNodeStyle ==
    <<" ", " ", "n", "o", "d", "e", " ", "[", "s", "h", "a", "p", "e", "=",
    "b", "o", "x", ",", " ", "s", "t", "y", "l", "e", "=", "f", "i", "l",
    "l", "e", "d", ",", " ", "f", "i", "l", "l", "c", "o", "l", "o", "r",
    "=", "l", "i", "g", "h", "t", "b", "l", "u", "e", "]", ";">>

DotEdgeStyle ==
    <<" ", " ", "e", "d", "g", "e", " ", "[", "c", "o", "l", "o", "r", "=",
    "d", "a", "r", "k", "g", "r", "e", "e", "n", "]", ";">>

DotCycleStyle ==
    <<" ", " ", "e", "d", "g", "e", " ", "[", "c", "o", "l", "o", "r", "=",
    "r", "e", "d", "]", ";">>

DotFooter ==
    <<"}">>

\* f'  "{source}" -> "{target}";'
EdgeStatement(source, target) ==
    <<" ", " ", "\"">> \o source \o <<"\"", " ">> \o ARROW \o <<" ", "\"">>
        \o target \o <<"\"", ";">>

\* for target in targets
RECURSIVE TargetStatements(_, _)
TargetStatements(source, targets) ==
    IF targets = <<>> THEN <<>>
    ELSE <<EdgeStatement(source, Head(targets))>>
         \o TargetStatements(source, Tail(targets))

\* for source, targets in self.graph.items()
RECURSIVE GraphStatements(_)
GraphStatements(g) ==
    IF g = <<>> THEN <<>>
    ELSE TargetStatements(Head(g).source, Head(g).targets) \o GraphStatements(Tail(g))

\* the loop over a cycle with range(len(cycle) - 2)
RECURSIVE OneCycleStatementsShort(_)
OneCycleStatementsShort(cycle) ==
    IF Len(cycle) < 3 THEN <<>>
    ELSE <<EdgeStatement(cycle[1], cycle[2])>> \o OneCycleStatementsShort(Tail(cycle))

\* for i in range(len(cycle) - 1)
RECURSIVE OneCycleStatements(_)
OneCycleStatements(cycle) ==
    IF Len(cycle) < 2 THEN <<>>
    ELSE <<EdgeStatement(cycle[1], cycle[2])>> \o OneCycleStatements(Tail(cycle))

\* for cycle in self.cycles
RECURSIVE CycleStatements(_)
CycleStatements(cs) ==
    IF cs = <<>> THEN <<>>
    ELSE OneCycleStatements(Head(cs)) \o CycleStatements(Tail(cs))

\* dot_lines
DotLines(g, cs) ==
    <<DotHeader, DotRankdir, DotNodeStyle, DotEdgeStyle>>
        \o GraphStatements(g)
        \o (IF cs # <<>> THEN <<DotCycleStyle>> \o CycleStatements(cs) ELSE <<>>)
        \o <<DotFooter>>

generate_graphviz_dot(g, cs) == Join(DotLines(g, cs), <<"\n">>)

\* display_graph()
DisplayGraph ==
    /\ pc = "idle"
    /\ dot_content' = generate_graphviz_dot(graph, cycles)
    /\ ret' = <<>> /\ closure' = {} /\ saved' = FALSE
    /\ op' = "display_graph"
    /\ opens' = 0
    /\ UNCHANGED <<config, repo, builder, pc, stack, bfs, temp_files, scans>>

(***************************************************************************)
(* DependencyGraph.save_graph_image                                        *)
(***************************************************************************)
\* what subprocess.run(['dot', ...]) can do: exit 0, exit non-zero, or raise
\* FileNotFoundError because the dot command is not installed
Renderers == {"ok", "failed", "absent"}

\* the temporary files on disk when save_graph_image returns: the file is
\* created with delete=False, and os.unlink runs only if subprocess.run returned
TempFilesAfter(n, renderer) == IF renderer = "absent" THEN n + 1 ELSE n

\* the value save_graph_image returns
SaveResult(renderer) == renderer = "ok"

SaveGraphImage ==
    /\ pc = "idle"
    /\ temp_files < MaxTemp
    /\ \E renderer \in Renderers :
        /\ temp_files' = TempFilesAfter(temp_files, renderer)
        /\ saved' = SaveResult(renderer)
        /\ ret' = <<>> /\ closure' = {} /\ dot_content' = <<>>
        /\ op' = "save_graph_image"
    /\ opens' = 0
    /\ UNCHANGED <<config, repo, builder, pc, stack, bfs, scans>>

(***************************************************************************)
(* Specification                                                           *)
(***************************************************************************)
Next ==
    \/ GetPackageDependencies
    \/ RepoGetReverseDependencies
    \/ BuildStart
    \/ BuildIter
    \/ Reset
    \/ ReverseStart
    \/ ReverseIter
    \/ ReverseReturn
    \/ DisplayGraph
    \/ SaveGraphImage

Spec == Init /\ [][Next]_vars

(***************************************************************************)
(* Properties                                                              *)
(***************************************************************************)
\* a traversal has run to its end and nothing ran since
Built == pc = "idle" /\ op = "build_graph_bfs_recursive"

\* `x in lst` for the load order and friends, as a set
Elems(lst) == {lst[i] : i \in 1..Len(lst)}

\* source -> target is an edge of get_graph()
HasEdge(g, source, target) ==
    source \in GraphKeys(g) /\ InList(target, GraphGet(g, source))

\* the chain A -> B -> C -> D from A, max_depth = 2, defaults otherwise
C1Case ==
    /\ file_backed /\ file = Chain4File
    /\ package = A /\ version = <<>> /\ max_depth = 2 /\ exclude_substring = <<>>

\* C1 as stated: the chain A -> B -> C -> D traversed from A with max_depth = 2
\* gives load order [A, B, C], with D an edge target of C and D never visited.
C1_Original ==
    (C1Case /\ Built) =>
        /\ load_order = <<A, B, C>>
        /\ HasEdge(graph, C, D)
        /\ D \notin visited

\* C1 amended: the chain A -> B -> C -> D traversed from A with max_depth = 2
\* gives load order [A, B]: C is entered at depth 2 and is not visited, so C is
\* an edge target of B only, and D appears nowhere.
C1_DepthLimit ==
    /\ C1Case => (C \notin visited /\ D \notin visited)
    /\ (C1Case /\ Built) =>
        /\ load_order = <<A, B>>
        /\ graph = << [source |-> A, targets |-> <<B>>],
                      [source |-> B, targets |-> <<C>>] >>
        /\ cycles = <<>>

C1_Witness == C1Case /\ Built /\ HasEdge(graph, B, C)

\* the records A -> B, B -> A from A, no depth limit, no exclusion
C2Case ==
    /\ file_backed /\ file = Cycle2File
    /\ package = A /\ version = <<>> /\ max_depth = Inf /\ exclude_substring = <<>>

\* C2: for A -> B, B -> A traversed from A without depth limit or exclusion
\* there is exactly one cycle record, [A, B, A], and the graph holds both
\* edges A -> B and B -> A.
C2_CycleDetection ==
    (C2Case /\ Built) =>
        /\ cycles = << <<A, B, A>> >>
        /\ HasEdge(graph, A, B)
        /\ HasEdge(graph, B, A)
        /\ load_order = <<A, B>>

C2_Witness == C2Case /\ Built /\ Len(cycles) = 1

\* the dependency list the source returned when name was expanded: the root is
\* looked up with the configured version, every other name without one
LookedUp(name) ==
    dependency_cache[IF name = package THEN CacheKey(package, version) ELSE name]

\* A -> B -> C with exclude_substring = "B"
C3Case ==
    /\ file_backed /\ file = Chain3File
    /\ package = A /\ version = <<>> /\ max_depth # 0 /\ exclude_substring = B

\* C3: with a non-empty exclude_substring no name containing it is ever
\* visited, put in the load order or made a key of the graph, while every
\* visited parent keeps the edge to each excluded dependency; for A -> B -> C
\* with exclude_substring = "B" the graph is A -> B alone and the load order
\* is [A].
C3_Exclusion ==
    /\ exclude_substring # <<>> =>
        \A n \in visited \cup Elems(load_order) \cup GraphKeys(graph) :
            ~Contains(exclude_substring, n)
    /\ (exclude_substring # <<>> /\ pc = "idle") =>
        \A p \in visited : \A i \in 1..Len(LookedUp(p)) :
            Contains(exclude_substring, LookedUp(p)[i])
                => HasEdge(graph, p, LookedUp(p)[i])
    /\ (C3Case /\ Built) =>
        /\ graph = << [source |-> A, targets |-> <<B>>] >>
        /\ load_order = <<A>>
        /\ ~HasEdge(graph, B, C)

C3_Witness ==
    /\ exclude_substring = B /\ Built /\ file = SubstringFile
    /\ HasEdge(graph, A, AB) /\ C \in visited

\* C4: the load order has no duplicates and holds exactly the visited names;
\* between operations a visited name is a key of the graph exactly when the
\* dependency list it was expanded with is not empty.
C4_LoadOrder ==
    /\ \A i, j \in 1..Len(load_order) : load_order[i] = load_order[j] => i = j
    /\ Elems(load_order) = visited
    /\ GraphKeys(graph) \subseteq visited
    /\ pc = "idle" =>
        \A n \in visited : (n \in GraphKeys(graph)) <=> (LookedUp(n) # <<>>)

C4_Witness ==
    /\ Built /\ file = DiamondFile /\ package = A /\ max_depth = Inf
    /\ D \in visited /\ D \notin GraphKeys(graph) /\ Len(load_order) = 4

\* iterations the active calls still have to run
RECURSIVE Remaining(_)
Remaining(stk) ==
    IF stk = <<>> THEN 0
    ELSE (Len(Head(stk).deps) - Head(stk).i + 1) + Remaining(Tail(stk))

\* every name the backing data can name, and the configured root
DataNames ==
    {package} \cup
        (IF file_backed
         THEN DOMAIN _build_reverse_cache_from_file(file, <<>>)
         ELSE DOMAIN demo_dependencies)

\* C5: build_graph_bfs_recursive terminates on every finite data set, cycles
\* and unset max_depth included: every step of a running traversal either
\* visits a name not visited before, out of the finitely many names of the
\* data, or uses up one pending loop iteration without adding any; the
\* recursion is never deeper than a finite max_depth; and a running traversal
\* always has its next step to take.
C5_Terminates ==
    /\ [][pc = "build" =>
            \/ visited \subseteq visited' /\ visited' # visited
            \/ visited' = visited /\ Remaining(stack') < Remaining(stack)]_vars
    /\ [](visited \subseteq DataNames)
    /\ []((pc = "build" /\ max_depth # Inf) => Len(stack) <= max_depth)
    /\ [](pc = "build" <=> (stack # <<>> /\ Remaining(stack) > 0))

C5_Witness ==
    /\ Built /\ file = Cycle3File /\ package = A /\ version = <<>>
    /\ max_depth = Inf /\ cycles = << <<A, B, C, A>> >>

\* C6: a call of get_package_dependencies whose key is already cached returns
\* the cached sequence, which is what the first call returned, opens the
\* backing file zero times and leaves both caches as they were.
C6_Memoization ==
    [][(pc = "idle" /\ op' = "get_package_dependencies"
            /\ CacheKey(package, version) \in DOMAIN dependency_cache) =>
        /\ ret' = dependency_cache[CacheKey(package, version)]
        /\ ret' = Fetch(package, version)
        /\ opens' = 0
        /\ UNCHANGED repo]_vars

C6_Witness ==
    /\ pc = "idle" /\ op = "get_package_dependencies" /\ file_backed
    /\ opens = 0 /\ ret = <<B, C>>

\* X depends on Y and Y depends on X, queried for X without depth limit
C7Case ==
    /\ file_backed /\ file = Cycle2File /\ package = A /\ rev_depth = Inf

RevDone == pc = "idle" /\ op = "get_reverse_dependencies"

\* C7 as stated: for X depends on Y and Y depends on X the reverse closure of X
\* with unbounded depth is exactly {Y}.
C7_Original == (C7Case /\ RevDone) => closure = {B}

\* C7 amended: the reverse closure ends for every reverse index and depth
\* (every iteration either marks a new name of the finite index visited or
\* shortens the queue) and never holds the starting name; for X depends on Y
\* and Y depends on X it is {Y} when the reverse index lists the dependents of
\* X by the end of the query (the index was empty and is built by the full
\* scan, or Y had been looked up), and empty when only X had been looked up
\* before the query.
C7_ReverseClosure ==
    /\ [][(pc = "rev" /\ queue # <<>>) =>
            \/ rvisited \subseteq rvisited' /\ rvisited' # rvisited
            \/ rvisited' = rvisited /\ Len(queue') < Len(queue)]_vars
    /\ [](rvisited \subseteq {package} \cup
            UNION {Elems(reverse_dependency_cache[k]) :
                        k \in DOMAIN reverse_dependency_cache})
    /\ [](pc = "rev" => package \notin reverse_deps)
    /\ [](RevDone => package \notin closure)
    /\ []((C7Case /\ RevDone) =>
            closure = IF A \in DOMAIN reverse_dependency_cache THEN {B} ELSE {})

C7_Witness == C7Case /\ RevDone /\ closure = {B} /\ dependency_cache # <<>>

\* the statements of the text display_graph printed
DotText == Split(dot_content, <<"\n">>)

\* the statements before and after the line that switches to the cycle style
PlainPart(lines) ==
    IF InList(DotCycleStyle, lines)
    THEN SubSeq(lines, 1, Index(lines, DotCycleStyle) - 1)
    ELSE lines

CyclePart(lines) ==
    IF InList(DotCycleStyle, lines)
    THEN SubSeq(lines, Index(lines, DotCycleStyle) + 1, Len(lines))
    ELSE <<>>

Count(lst, x) == Cardinality({i \in 1..Len(lst) : lst[i] = x})

\* how often target is listed under source in the graph
Multiplicity(g, source, target) ==
    IF source \in GraphKeys(g) THEN Count(GraphGet(g, source), target) ELSE 0

\* how often source -> target is a step of a recorded cycle
CycleUses(cs, source, target) ==
    Cardinality(UNION {{<<k, i>> : i \in {j \in 1..(Len(cs[k]) - 1) :
                                            cs[k][j] = source /\ cs[k][j + 1] = target}} :
                       k \in 1..Len(cs)})

GraphNames ==
    GraphKeys(graph)
        \cup UNION {Elems(graph[i].targets) : i \in 1..Len(graph)}
        \cup UNION {Elems(cycles[k]) : k \in 1..Len(cycles)}

Shown == pc = "idle" /\ op = "display_graph"

\* how many targets the graph lists, and how many steps the cycles make
RECURSIVE TotalTargets(_)
TotalTargets(g) ==
    IF g = <<>> THEN 0 ELSE Len(Head(g).targets) + TotalTargets(Tail(g))

RECURSIVE TotalSteps(_)
TotalSteps(cs) ==
    IF cs = <<>> THEN 0 ELSE (Len(Head(cs)) - 1) + TotalSteps(Tail(cs))

\* C8 as stated: every edge of the graph is printed exactly once in the plain
\* style, and every edge of a recorded cycle exactly once more in the cycle
\* style.
C8_Original ==
    Shown => \A source, target \in GraphNames :
        HasEdge(graph, source, target) =>
            /\ Count(PlainPart(DotText), EdgeStatement(source, target)) = 1
            /\ Count(CyclePart(DotText), EdgeStatement(source, target))
                    = IF CycleUses(cycles, source, target) > 0 THEN 1 ELSE 0

\* C8 amended: an edge is printed in the plain style once per time it is
\* listed in the graph (twice for a dependency named twice), and in the cycle
\* style once per recorded cycle step that uses it (twice for an edge shared
\* by two cycles); apart from the four header lines, the line that switches
\* the style and the closing line, nothing else is printed.
C8_GraphDescription ==
    Shown =>
        /\ \A source, target \in GraphNames :
            /\ Count(PlainPart(DotText), EdgeStatement(source, target))
                    = Multiplicity(graph, source, target)
            /\ Count(CyclePart(DotText), EdgeStatement(source, target))
                    = CycleUses(cycles, source, target)
        /\ Len(PlainPart(DotText))
                = 4 + TotalTargets(graph) + (IF cycles = <<>> THEN 1 ELSE 0)
        /\ Len(CyclePart(DotText))
                = IF cycles = <<>> THEN 0 ELSE TotalSteps(cycles) + 1

C8_Witness ==
    /\ Shown /\ file = SharedFile
    /\ cycles = << <<A, B, C, A>>, <<B, C, B>> >>
    /\ Count(CyclePart(DotText), EdgeStatement(B, C)) = 2

\* C9: save_graph_image never returns with its temporary .dot file still on
\* disk, whether the renderer succeeds, fails or is absent.
C9_TempRemoved == temp_files = 0

\* the scan the claim describes: a record whose left side does not unpack is
\* passed over and the scan goes on
RECURSIVE ParseSkipping(_, _, _, _)
ParseSkipping(lines, i, pkg, ver) ==
    IF i > Len(lines) THEN <<>>
    ELSE LET line == Strip(lines[i]) IN
         IF ~IsRecordLine(line) \/ UnpackRaises(PkgInfo(line))
         THEN ParseSkipping(lines, i + 1, pkg, ver)
         ELSE IF RecordMatches(PkgName(PkgInfo(line)), PkgVer(PkgInfo(line)), pkg, ver)
              THEN CleanDeps(DepsPart(line))
              ELSE ParseSkipping(lines, i + 1, pkg, ver)

RECURSIVE BuildSkipping(_, _, _)
BuildSkipping(lines, i, rcache) ==
    IF i > Len(lines) THEN rcache
    ELSE LET line == Strip(lines[i]) IN
         IF ~IsRecordLine(line) \/ UnpackRaises(PkgInfo(line))
         THEN BuildSkipping(lines, i + 1, rcache)
         ELSE BuildSkipping(lines, i + 1,
                AppendAll(rcache, CleanDeps(DepsPart(line)), PkgName(PkgInfo(line))))

\* C10: a malformed record is skipped without ending the scan: a lookup
\* returns the dependencies of the first matching record even when a
\* malformed line comes before it, and the full scan for the reverse index
\* indexes the records after a malformed line as well.
C10_MalformedSkipped ==
    /\ (pc = "idle" /\ op = "get_package_dependencies" /\ file_backed) =>
            ret = ParseSkipping(file, 1, package, version)
    /\ (pc = "idle" /\ op = "repo_get_reverse_dependencies" /\ opens = 1) =>
            reverse_dependency_cache = BuildSkipping(file, 1, <<>>)

\* C11: over any sequence of get_package_dependencies and
\* get_reverse_dependencies calls the backing file is scanned in full for the
\* reverse index at most once; later calls answer from the index built then,
\* also when the scan found no dependency record.
C11_MaterializedOnce == scans <= 1

\* C12: reset() empties graph, visited, cycles and load_order and leaves the
\* dependency cache and the reverse index as they were; a traversal started
\* right after it begins from empty traversal state, visits the root again and
\* takes a cached lookup from the cache without opening the file.
C12_ResetFrame ==
    /\ [][(pc = "idle" /\ op' = "reset") =>
            /\ graph' = <<>> /\ visited' = {} /\ cycles' = <<>> /\ load_order' = <<>>
            /\ UNCHANGED <<repo, config, bfs, temp_files, scans, pc, stack>>]_vars
    /\ [](op = "reset" =>
            graph = <<>> /\ visited = {} /\ cycles = <<>> /\ load_order = <<>>)
    /\ [][(op = "reset" /\ op' = "build_graph_bfs_recursive"
                /\ ~DepthReached(0, max_depth)
                /\ ~Excluded(exclude_substring, package)) =>
            /\ package \in visited' /\ load_order' = <<package>>
            /\ (CacheKey(package, version) \in DOMAIN dependency_cache =>
                    opens' = 0 /\ UNCHANGED repo)]_vars

\* reset() has run after a traversal that looked up more than one package
C12_Witness ==
    /\ op = "reset"
    /\ CacheKey(package, version) \in DOMAIN dependency_cache
    /\ Cardinality(DOMAIN dependency_cache) > 1
    /\ reverse_dependency_cache # <<>>

\* the lines of a file that are records (NAME[@VERSION] -> DEPS), and the
\* malformed ones among them
RecordLines(lines) == {i \in 1..Len(lines) : IsRecordLine(Strip(lines[i]))}

MalformedLines(lines) ==
    {i \in RecordLines(lines) : UnpackRaises(PkgInfo(Strip(lines[i])))}

\* the records whose name is name and whose version is ver, or any version
\* when ver is empty
MatchingLines(lines, name, ver) ==
    {i \in RecordLines(lines) \ MalformedLines(lines) :
        LET info == PkgInfo(Strip(lines[i])) IN
        /\ PkgName(info) = name
        /\ (ver = <<>> \/ PkgVer(info) = ver)}

Lowest(S) == CHOOSE i \in S : \A j \in S : i <= j

Looked == pc = "idle" /\ op = "get_package_dependencies" /\ file_backed

\* the dependency names of the record at line i
DepsOfLine(lines, i) == CleanDeps(DepsPart(Strip(lines[i])))

\* C13: a lookup in a file-backed source returns the dependency names, version
\* suffixes dropped and order kept, of the topmost record whose name is the
\* queried name and whose version is the queried version (any version when the
\* query has none), and the empty sequence when no record matches.
C13_FirstMatch ==
    Looked =>
        LET hits == MatchingLines(file, package, version) IN
        /\ hits = {} => ret = <<>>
        /\ hits # {} => ret = DepsOfLine(file, Lowest(hits))

\* The first-match rule where no malformed record stands above the topmost
\* match: there the lookup does return that record's dependency names.
FirstMatchBelowNoMalformed ==
    Looked =>
        LET hits == MatchingLines(file, package, version) IN
        /\ hits = {} => ret = <<>>
        /\ (hits # {} /\ \A m \in MalformedLines(file) : m > Lowest(hits)) =>
                ret = DepsOfLine(file, Lowest(hits))
        /\ (file = VersionedFile /\ package = A) =>
                ret = IF version = V1 THEN <<B, C>> ELSE <<C>>
        /\ (file = OddLinesFile /\ package = B) => ret = <<>>
        /\ (file = DupFile /\ package = A) =>
                ret = IF version = <<>> THEN <<B, B>> ELSE <<>>

\* depth d has reached the configured maximum
AtLimit(d) == max_depth # Inf /\ d >= max_depth

\* the depth at which the next call of build_graph_bfs_recursive enters
EntryDepth == IF pc = "build" THEN Top.depth + 1 ELSE 0

\* C14: a node entered at a depth d >= max_depth is not visited, not put in the
\* load order and not looked up; every name joins the load order in a call
\* entered at a depth below max_depth, the active calls sit at depths 0, 1, ...
\* below max_depth, and with max_depth = 0 graph, visited, cycles and
\* load_order stay empty.
C14_DepthInvariant ==
    /\ [][(pc = "build" /\ AtLimit(Top.depth + 1)) =>
            UNCHANGED <<visited, load_order, cycles, repo>> /\ opens' = 0]_vars
    /\ [][(pc = "idle" /\ op' = "build_graph_bfs_recursive" /\ AtLimit(0)) =>
            UNCHANGED <<builder, repo>> /\ pc' = "idle"]_vars
    /\ [][(load_order' # load_order /\ load_order' # <<>>) => ~AtLimit(EntryDepth)]_vars
    /\ [](\A i \in 1..Len(stack) : stack[i].depth = i - 1 /\ ~AtLimit(stack[i].depth))
    /\ [](max_depth = 0 =>
            graph = <<>> /\ visited = {} /\ cycles = <<>> /\ load_order = <<>>)
    /\ []((Built /\ file = Chain4File /\ package = A /\ version = <<>>
                /\ exclude_substring = <<>> /\ max_depth = 1) =>
            load_order = <<A>> /\ graph = << [source |-> A, targets |-> <<B>>] >>)

\* a traversal with max_depth = 1 has ended: the root's dependency was entered
\* at depth 1 and left unvisited
C14_Witness ==
    /\ Built /\ max_depth = 1
    /\ load_order = <<package>>
    /\ graph # <<>>

\* the node the loop of the innermost call is about to enter
Entering == Top.deps[Top.i]

\* C15: a cycle record is appended only by a step that enters a node standing
\* on the path of the active calls, and it is that path from the node's place
\* on, closed by the node; such a step below the depth limit does append one;
\* a step entering a node visited before that is not
\* on the path appends no cycle and changes nothing else of the traversal
\* state; on the diamond and the chains no cycle is ever recorded.
C15_CycleOnlyOnPath ==
    /\ [][(cycles' # cycles /\ cycles' # <<>>) =>
            /\ pc = "build"
            /\ \E k \in 1..Len(Top.path) :
                /\ Top.path[k] = Entering
                /\ cycles' = Append(cycles,
                                    SubSeq(Top.path, k, Len(Top.path)) \o <<Entering>>)
            /\ UNCHANGED <<visited, load_order, repo>>]_vars
    /\ [][(pc = "build" /\ ~AtLimit(Top.depth + 1)
                /\ \E k \in 1..Len(Top.path) : Top.path[k] = Entering) =>
            Len(cycles') = Len(cycles) + 1]_vars
    /\ [][(pc = "build" /\ Entering \in visited
                /\ \A k \in 1..Len(Top.path) : Top.path[k] # Entering) =>
            UNCHANGED <<cycles, visited, load_order, repo>>]_vars
    /\ [](\A k \in 1..Len(stack) :
            /\ stack[k].path = [j \in 1..k |-> stack[j].pkg]
            /\ \A j \in 1..k : stack[j].pkg \in visited)
    /\ [](file \in {DiamondFile, Chain4File, Chain3File} => cycles = <<>>)

\* the diamond traversed from A: D was entered a second time, from C, after it
\* had been visited below B, and no cycle was recorded
C15_Witness ==
    /\ Built /\ file = DiamondFile
    /\ load_order = <<A, B, D, C>>
    /\ HasEdge(graph, C, D)
    /\ cycles = <<>>

\* the names the reverse index idx lists as direct dependents of n
Dependents(idx, n) == IF n \in DOMAIN idx THEN Elems(idx[n]) ELSE {}

\* every name the reverse index mentions
IndexNames(idx) == DOMAIN idx \cup UNION {Elems(idx[n]) : n \in DOMAIN idx}

\* the names reached from the set frontier by 1 to k reverse-dependency hops
RECURSIVE WithinHops(_, _, _)
WithinHops(idx, frontier, k) ==
    IF k = 0 \/ frontier = {} THEN {}
    ELSE LET next == UNION {Dependents(idx, n) : n \in frontier}
         IN next \cup WithinHops(idx, next, k - 1)

\* the ancestors of name within md hops, md = Inf for all of them
Ancestors(idx, name, md) ==
    WithinHops(idx, {name},
               IF md = Inf THEN Cardinality(IndexNames(idx)) + 1 ELSE md) \ {name}

\* C16: get_reverse_dependencies(name, max_depth) returns exactly the names
\* other than name that the reverse index reaches from name in at least 1 and
\* at most max_depth hops: all ancestors without a depth limit, none with
\* max_depth = 0, whatever the order in which the index lists dependents.
C16_ReverseClosureExact ==
    /\ RevDone => closure = Ancestors(reverse_dependency_cache, package, rev_depth)
    /\ (RevDone /\ rev_depth = 0) => closure = {}
    /\ (RevDone /\ file = Chain4File /\ package = C /\ dependency_cache = <<>>) =>
            closure = (IF rev_depth = 0 THEN {} ELSE IF rev_depth = 1 THEN {B} ELSE {A, B})

\* the closure of C on the chain with max_depth = 1: B is returned and A, two
\* hops away, is not
C16_Witness ==
    /\ RevDone /\ file = Chain4File /\ package = C /\ rev_depth = 1
    /\ closure = {B}
    /\ A \in Dependents(reverse_dependency_cache, B)

\* how many times the cache-missing lookups so far, whose results are the
\* values of dependency_cache under keys, returned d as a dependency of p
RECURSIVE Insertions(_, _, _)
Insertions(keys, p, d) ==
    IF keys = {} THEN 0
    ELSE LET k == CHOOSE x \in keys : TRUE
         IN (IF PkgName(k) = p THEN Count(dependency_cache[k], d) ELSE 0)
                + Insertions(keys \ {k}, p, d)

\* the reverse index holds exactly the insertions of the forward lookups
OnlyForwardInsertions ==
    /\ DOMAIN reverse_dependency_cache =
            UNION {Elems(dependency_cache[k]) : k \in DOMAIN dependency_cache}
    /\ \A d \in DOMAIN reverse_dependency_cache :
        \A p \in Elems(reverse_dependency_cache[d]) \cup
                  {PkgName(k) : k \in DOMAIN dependency_cache} :
            Count(reverse_dependency_cache[d], p) =
                Insertions(DOMAIN dependency_cache, p, d)

\* C17: the backing file is scanned for the reverse index only by a call that
\* finds the index empty; as long as no scan has run the index holds exactly
\* the insertions of the cache-missing forward lookups, one of the looked-up
\* package per dependency returned; and a get_reverse_dependencies call that
\* finds the index non-empty leaves it alone, opens no file and returns the
\* listed dependents, the empty sequence for a name the index does not list.
C17_CallOrderDependence ==
    /\ [][scans' # scans =>
            /\ reverse_dependency_cache = <<>>
            /\ scans' = scans + 1 /\ opens' = 1
            /\ reverse_dependency_cache' = _build_reverse_cache_from_file(file, <<>>)]_vars
    /\ [](scans = 0 => OnlyForwardInsertions)
    /\ [][(pc = "idle" /\ op' = "repo_get_reverse_dependencies"
                /\ reverse_dependency_cache # <<>>) =>
            /\ UNCHANGED <<repo, scans>>
            /\ opens' = 0
            /\ ret' = IF package \in DOMAIN reverse_dependency_cache
                      THEN reverse_dependency_cache[package]
                      ELSE <<>>]_vars

\* after forward lookups only, get_reverse_dependencies returned nothing for a
\* package that a full scan of the file would list dependents for
C17_Witness ==
    /\ pc = "idle" /\ op = "repo_get_reverse_dependencies"
    /\ scans = 0 /\ reverse_dependency_cache # <<>>
    /\ ret = <<>>
    /\ package \in DOMAIN _build_reverse_cache_from_file(file, <<>>)

\* the version a traversal looks name up with: the root's for the root, none
\* for every other package
LookupVersion(name) == IF name = package THEN version ELSE <<>>

IsPrefix(s, t) == Len(s) <= Len(t) /\ SubSeq(t, 1, Len(s)) = s

\* C18: after a traversal the edge sequence of every key of the graph is the
\* dependency sequence the source returned for that name, in the same order
\* and with the same repetitions (the root looked up with the root version,
\* every other name without one); every key is a visited name and is a key
\* once; while the traversal runs the edge sequence is a prefix of it.
C18_EdgesAsReturned ==
    /\ (Built /\ pc = "idle") =>
            \A i \in 1..Len(graph) :
                /\ graph[i].targets =
                        dependency_cache[CacheKey(graph[i].source,
                                                  LookupVersion(graph[i].source))]
                /\ graph[i].targets =
                        Fetch(graph[i].source, LookupVersion(graph[i].source))
    /\ \A i \in 1..Len(graph) :
            /\ graph[i].source \in visited
            /\ graph[i].targets # <<>>
            /\ \A j \in 1..Len(graph) : graph[j].source = graph[i].source => j = i
            /\ IsPrefix(graph[i].targets,
                        Fetch(graph[i].source, LookupVersion(graph[i].source)))

\* a traversal has ended on the file that lists B twice under A: the graph
\* lists B twice under A, as the source returned it
C18_Witness ==
    /\ Built /\ file = DupFile /\ package = A
    /\ graph # <<>>
    /\ graph[1] = [source |-> A, targets |-> <<B, B>>]

\* C19: every recorded cycle has at least two names, ends with the name it
\* starts with, names no package twice before its last name, names visited
\* packages only, and steps along edges of the graph; so every statement the
\* graph description prints in the cycle style is also printed in the plain
\* style.
C19_CycleStructure ==
    /\ \A k \in 1..Len(cycles) :
        LET c == cycles[k] IN
        /\ Len(c) >= 2
        /\ c[1] = c[Len(c)]
        /\ \A i, j \in 1..(Len(c) - 1) : c[i] = c[j] => i = j
        /\ \A i \in 1..(Len(c) - 1) :
            /\ c[i] \in visited
            /\ HasEdge(graph, c[i], c[i + 1])
    /\ Shown =>
            \A i \in 1..Len(CyclePart(DotText)) :
                \/ CyclePart(DotText)[i] = DotFooter
                \/ /\ InList(CyclePart(DotText)[i], PlainPart(DotText))
                   /\ \E source, target \in GraphNames :
                        /\ HasEdge(graph, source, target)
                        /\ CyclePart(DotText)[i] = EdgeStatement(source, target)

\* the description of a graph whose cycle starts below the root has been
\* printed: the cycle is the part of the path from B on, not the whole path
C19_Witness ==
    /\ Shown /\ file = LateCycleFile /\ package = A
    /\ Len(cycles) >= 1
    /\ cycles[1] = <<B, C, B>>
    /\ Len(CyclePart(DotText)) >= 3

\* the dependencies the source gives for name when a traversal looks it up
Succ(name) == Elems(Fetch(name, LookupVersion(name)))

\* the names reached from the set S by zero or more dependency steps
RECURSIVE Closure(_)
Closure(S) ==
    LET next == S \cup UNION {Succ(n) : n \in S}
    IN IF next = S THEN S ELSE Closure(next)

\* a directed cycle of the dependency data can be reached from the root
CycleReachable == \E n \in Closure({package}) : n \in Closure(Succ(n))

\* C20: without depth limit and without exclusion a finished traversal has
\* recorded at least one cycle exactly when a directed cycle of the dependency
\* data can be reached from the root.
C20_CycleIffReachable ==
    (Built /\ max_depth = Inf /\ exclude_substring = <<>>) =>
        (cycles # <<>> <=> CycleReachable)

\* a traversal from A has ended on data whose only cycle, B -> C -> B, lies
\* below the root, and has recorded it
C20_Witness ==
    /\ Built /\ max_depth = Inf /\ exclude_substring = <<>>
    /\ file = LateCycleFile /\ package = A /\ version = <<>>
    /\ CycleReachable /\ A \notin Closure(Succ(A))
    /\ cycles # <<>>

====
